---- MODULE Spec2Model ----
(***************************************************************************)
(* A model of the path tracer of raytracing_weekend:                       *)
(*   - src/math.rs          Vec3 algebra (dot, reflect, refract, ...)      *)
(*   - src/bin/sandbox.rs   the integrator ray_color and the render loop   *)
(*                          of main                                        *)
(* Three specifications share the module: SpecMath applies the pure Vec3   *)
(* functions to bounded inputs, SpecRay runs one ray_color call tree as a  *)
(* stack machine, SpecRender runs the per-row fan-out/fan-in of main.      *)
(*                                                                         *)
(* f64 values are fixed-point integers: the real number a is the integer   *)
(* a * Scale.  Scale is chosen so that every value the bounded inputs      *)
(* produce (tenths, halves up to MaxDepth times) is represented exactly.   *)
(***************************************************************************)
EXTENDS Integers, Sequences, FiniteSets, TLC

\* ------------------------------------------------------------------ bounds
MaxDepth == 3
MaxCoord == 2
MaxWidth == 2
MaxHeight == 2
MaxSamples == 1
JitterSteps == 2

\* ------------------------------------------------------------ f64 numbers
Scale == 100 * (2 ^ MaxDepth)

\* the f64 literal k.0
F(k) == k * Scale

fmul(a, b) == (a * b) \div Scale

fdiv(a, b) == (a * Scale) \div b

fmin(a, b) == IF a <= b THEN a ELSE b

fabs(a) == IF a < 0 THEN -a ELSE a

RECURSIVE isqrt_search(_, _, _)
isqrt_search(n, lo, hi) ==
    IF lo >= hi THEN lo
    ELSE LET mid == (lo + hi + 1) \div 2
         IN  IF mid * mid <= n THEN isqrt_search(n, mid, hi)
                               ELSE isqrt_search(n, lo, mid - 1)

\* f64::sqrt on fixed point: sqrt(a / Scale) * Scale = sqrt(a * Scale)
fsqrt(a) == isqrt_search(a * Scale, 0, fmin(a * Scale, 46340))

\* ------------------------------------------------------------------- Vec3
vec3(x, y, z) == [x |-> x, y |-> y, z |-> z]

ZERO == vec3(0, 0, 0)

ONE == vec3(F(1), F(1), F(1))

dot(a, b) == fmul(a.x, b.x) + fmul(a.y, b.y) + fmul(a.z, b.z)

squared_norm(a) == dot(a, a)

norm(a) == fsqrt(squared_norm(a))

add(a, b) == vec3(a.x + b.x, a.y + b.y, a.z + b.z)

sub(a, b) == vec3(a.x - b.x, a.y - b.y, a.z - b.z)

\* Vec3 * f64
mul_f(a, k) == vec3(fmul(a.x, k), fmul(a.y, k), fmul(a.z, k))

\* f64 * Vec3
f_mul(k, a) == mul_f(a, k)

\* Vec3 * Vec3, componentwise
mul_v(a, b) == vec3(fmul(a.x, b.x), fmul(a.y, b.y), fmul(a.z, b.z))

div_f(a, k) == vec3(fdiv(a.x, k), fdiv(a.y, k), fdiv(a.z, k))

neg(a) == vec3(-a.x, -a.y, -a.z)

normalize(a) == div_f(a, norm(a))

\* a plausible slip: the projection factor 1.0 instead of 2.0
reflect_once(v, n) == sub(v, mul_f(f_mul(F(1), n), dot(v, n)))

reflect(v, n) == sub(v, mul_f(f_mul(F(2), n), dot(v, n)))

\* the local cos_theta of refract.  In Rust the method call binds tighter
\* than the unary minus: -self.dot(n).min(1.0) is -(self.dot(n).min(1.0)).
refract_cos_theta(v, n) == -fmin(dot(v, n), F(1))

refract(v, n, eta1, eta2) ==
    LET cos_theta == refract_cos_theta(v, n)
        perp == f_mul(fdiv(eta1, eta2), add(v, f_mul(cos_theta, n)))
        parallel == f_mul(-fsqrt(fabs(F(1) - squared_norm(perp))), n)
    IN  add(perp, parallel)

ray(origin, dir) == [origin |-> origin, dir |-> dir]

\* ----------------------------------------------------------------- state
VARIABLES
    \* SpecMath: the last Vec3 call, its arguments and its results
    mpc, mv, mn, mout, mcos,
    \* SpecRay: the ray_color call tree
    phase,      \* "idle" | "running" | "done"
    stack,      \* the activations of ray_color, outermost first
    ret,        \* the value the last finished activation returned
    topDepth,   \* the depth argument of the top-level call
    hits,       \* world.hit queries issued by the call tree
    scatters,   \* material scatter calls issued by the call tree
    steps,      \* steps the call tree has taken
    path,       \* attenuations of the successful scatters, outermost first
    last,       \* the activation that returned last
    terminal,   \* how the innermost activation of the path ended
    decs,       \* the depths at which depth - 1 was evaluated
    \* SpecRender: the render stage of main
    rpc,        \* "render" | "done"
    width, height, samples,
    scene,      \* the radiance the world shows through each pixel
    y,          \* the row of the for loop
    task,       \* the pixel closures of the parallel map
    line,       \* the row collected so far
    buffer, img,
    computed,   \* the colour each finished task returned
    camArgs     \* the (u, v) of every camera.get_ray call so far

mathVars == <<mpc, mv, mn, mout, mcos>>

rayVars ==
    <<phase, stack, ret, topDepth, hits, scatters, steps, path, last, terminal,
      decs>>

renderVars ==
    <<rpc, width, height, samples, scene, y, task, line, buffer, img, computed,
      camArgs>>

vars == <<mathVars, rayVars, renderVars>>

\* --------------------------------------------------------------- SpecMath
Coords == {F(k) : k \in (-MaxCoord)..MaxCoord}

Vecs == {vec3(a, b, c) : a \in Coords, b \in Coords, c \in Coords}

\* the axis-aligned unit vectors
UnitNormals ==
    {vec3(F(1), 0, 0), vec3(F(-1), 0, 0), vec3(0, F(1), 0),
     vec3(0, F(-1), 0), vec3(0, 0, F(1)), vec3(0, 0, F(-1))}

\* (eta1, eta2) pairs: air to glass, glass to air, equal media
Etas == {<<F(1), F(2)>>, <<F(2), F(1)>>, <<F(1), F(1)>>}

NoActivation ==
    [depth |-> 0, r |-> ray(ZERO, ZERO), kind |-> "none", value |-> ZERO,
     nhit |-> 0, nscat |-> 0]

MathIdle ==
    /\ mpc = "input" /\ mv = ZERO /\ mn = vec3(F(1), 0, 0) /\ mout = ZERO
    /\ mcos = 0

RayIdle ==
    /\ phase = "idle" /\ stack = <<>> /\ ret = ZERO /\ topDepth = 0
    /\ hits = 0 /\ scatters = 0 /\ steps = 0 /\ path = <<>>
    /\ last = NoActivation
    /\ terminal = NoActivation
    /\ decs = {}

RenderIdle ==
    /\ rpc = "done" /\ width = 0 /\ height = 0 /\ samples = 0
    /\ scene = "flat" /\ y = 0
    /\ task = <<>> /\ line = <<>> /\ buffer = <<>> /\ img = <<>>
    /\ computed = <<>> /\ camArgs = <<>>

\* the arguments of the call are drawn here; the actions apply the function
InitMath ==
    /\ mpc = "input" /\ mv \in Vecs /\ mn \in UnitNormals /\ mout = ZERO
    /\ mcos = 0
    /\ RayIdle /\ RenderIdle

CallReflect ==
    /\ mpc = "input"
    /\ mpc' = "reflect"
    /\ mout' = reflect(mv, mn)
    /\ UNCHANGED <<mv, mn, mcos, rayVars, renderVars>>

CallRefract(eta) ==
    /\ mpc = "input"
    /\ mpc' = "refract"
    /\ mout' = refract(mv, mn, eta[1], eta[2])
    /\ mcos' = refract_cos_theta(mv, mn)
    /\ UNCHANGED <<mv, mn, rayVars, renderVars>>

NextMath ==
    \/ CallReflect
    \/ \E eta \in Etas : CallRefract(eta)

SpecMath == InitMath /\ [][NextMath]_vars

\* ---------------------------------------------------------------- SpecRay
\* Stand-in for u64::MAX, the value 0 - 1 wraps to: TLC's integers are 32 bits
\* wide, and the model only needs it to exceed every depth it reaches.
U64_MAX == 2147483647

\* depth - 1 on u64
sub_u64(a, b) == IF a >= b THEN a - b ELSE U64_MAX

\* a plausible slip: a strict comparison, never true of an unsigned counter
IsTerminalStrict(depth) == depth < 0

\* the cutoff test, depth <= 0
IsTerminal(depth) == depth <= 0

\* a plausible slip: white instead of black for an exhausted path
exhausted_white == ONE

\* the value of an exhausted path, Vec3::ZERO
exhausted_value == ZERO

\* a plausible slip: the lerp weights swapped
background_swapped(r) ==
    LET unit == normalize(r.dir)
        t == fmul(F(1) \div 2, unit.y + F(1))
    IN  add(f_mul(t, ONE),
            f_mul(F(1) - t, vec3(F(1) \div 2, (7 * F(1)) \div 10, F(1))))

\* the gradient for the background
background(r) ==
    LET unit == normalize(r.dir)
        t == fmul(F(1) \div 2, unit.y + F(1))
    IN  add(f_mul(F(1) - t, ONE),
            f_mul(t, vec3(F(1) \div 2, (7 * F(1)) \div 10, F(1))))

\* a plausible slip: the attenuation dropped
attenuate_dropped(attenuation, inner) == inner

\* attenuation.to_vec3() * ray_color(scattered, world, depth - 1)
attenuate(attenuation, inner) == mul_v(attenuation, inner)

\* a plausible slip: the depth passed on unchanged
next_depth_same(depth) == depth

\* the depth argument of the recursive call
next_depth(depth) == sub_u64(depth, 1)

\* ray directions whose norm is an integer, so that normalize is exact
Dirs ==
    {vec3(0, F(1), 0), vec3(0, F(-1), 0), vec3(F(3), F(4), 0),
     vec3(F(4), F(-3), 0)}

Rays == {ray(ZERO, d) : d \in Dirs}

\* the attenuations a material hands back, as Vec3
Attenuations ==
    {ONE, vec3(F(1) \div 2, F(1) \div 2, F(1) \div 2),
     vec3(F(1), F(1) \div 2, 0)}

Depths == 0..MaxDepth

frame(r, depth) ==
    [r |-> r, depth |-> depth, pc |-> "entry", att |-> ZERO, nhit |-> 0,
     nscat |-> 0]

top == stack[Len(stack)]

pop == SubSeq(stack, 1, Len(stack) - 1)

\* the top activation returns value
returned(f, kind, value) ==
    /\ ret' = value
    /\ stack' = pop
    /\ phase' = IF Len(stack) = 1 THEN "done" ELSE "running"
    /\ last' = [depth |-> f.depth, r |-> f.r, kind |-> kind, value |-> value,
                nhit |-> f.nhit, nscat |-> f.nscat]

InitRay ==
    /\ MathIdle /\ RayIdle /\ RenderIdle

\* a top-level call ray_color(r, world, depth)
Call(r, depth) ==
    /\ phase \in {"idle", "done"}
    /\ phase' = "running"
    /\ stack' = <<frame(r, depth)>>
    /\ topDepth' = depth
    /\ hits' = 0 /\ scatters' = 0 /\ steps' = 0 /\ path' = <<>> /\ decs' = {}
    /\ ret' = ZERO
    /\ last' = NoActivation
    /\ terminal' = NoActivation
    /\ UNCHANGED <<mathVars, renderVars>>

\* depth <= 0: return Vec3::ZERO
Exhausted ==
    /\ phase = "running" /\ top.pc = "entry"
    /\ IsTerminal(top.depth)
    /\ returned(top, "exhausted", exhausted_value)
    /\ terminal' = last'
    /\ steps' = steps + 1
    /\ UNCHANGED <<topDepth, hits, scatters, path, decs, mathVars, renderVars>>

\* world.hit returns None: the background gradient
Miss ==
    /\ phase = "running" /\ top.pc = "entry"
    /\ ~IsTerminal(top.depth)
    /\ returned([top EXCEPT !.nhit = @ + 1], "miss", background(top.r))
    /\ terminal' = last'
    /\ hits' = hits + 1
    /\ steps' = steps + 1
    /\ UNCHANGED <<topDepth, scatters, path, decs, mathVars, renderVars>>

\* world.hit returns a record, scatter returns None: Vec3::ZERO
Absorbed ==
    /\ phase = "running" /\ top.pc = "entry"
    /\ ~IsTerminal(top.depth)
    /\ returned([top EXCEPT !.nhit = @ + 1, !.nscat = @ + 1], "absorbed", ZERO)
    /\ terminal' = last'
    /\ hits' = hits + 1
    /\ scatters' = scatters + 1
    /\ steps' = steps + 1
    /\ UNCHANGED <<topDepth, path, decs, mathVars, renderVars>>

\* world.hit returns a record, scatter returns Some((attenuation, scatterd)):
\* the recursive call ray_color(&scatterd, &world, depth - 1)
Scattered(attenuation, scatterd) ==
    /\ phase = "running" /\ top.pc = "entry"
    /\ ~IsTerminal(top.depth)
    /\ stack' = Append([stack EXCEPT ![Len(stack)] =
                            [@ EXCEPT !.pc = "await", !.att = attenuation,
                                      !.nhit = @ + 1, !.nscat = @ + 1]],
                       frame(scatterd, next_depth(top.depth)))
    /\ decs' = decs \cup {top.depth}
    /\ path' = Append(path, attenuation)
    /\ hits' = hits + 1
    /\ scatters' = scatters + 1
    /\ steps' = steps + 1
    /\ UNCHANGED <<phase, ret, topDepth, last, terminal, mathVars, renderVars>>

\* the recursive call has returned: return attenuation * its value
Resume ==
    /\ phase = "running" /\ top.pc = "await"
    /\ returned(top, "scattered", attenuate(top.att, ret))
    /\ steps' = steps + 1
    /\ UNCHANGED <<topDepth, hits, scatters, path, terminal, decs, mathVars,
                   renderVars>>

StepRay ==
    \/ Exhausted
    \/ Miss
    \/ Absorbed
    \/ \E a \in Attenuations, s \in Rays : Scattered(a, s)
    \/ Resume

NextRay ==
    \/ \E r \in Rays, d \in Depths : Call(r, d)
    \/ StepRay

SpecRay == InitRay /\ [][NextRay]_vars

\* ------------------------------------------------------------- SpecRender
Color(r, g, b) == [r |-> r, g |-> g, b |-> b]

\* a slot of the collected row, or of the image, not written yet
NoColor == Color(-1, -1, -1)

clamp01(a) == IF a < 0 THEN 0 ELSE IF a > F(1) THEN F(1) ELSE a

\* Color::from_vec(color, samples): the average, gamma 2, clamped, 8 bits
from_vec(color, n) ==
    LET avg == div_f(color, F(n))
    IN  Color((clamp01(fsqrt(avg.x)) * 255) \div Scale,
              (clamp01(fsqrt(avg.y)) * 255) \div Scale,
              (clamp01(fsqrt(avg.z)) * 255) \div Scale)

\* what ray_color returns for a sample of pixel (x, yy): a scene whose pixels
\* all differ ("ramp"), or one of a single colour ("flat")
radiance(x, yy) ==
    IF scene = "ramp"
    THEN vec3(fdiv(F(x + 1), F(MaxWidth + 2)), fdiv(F(yy + 1), F(MaxHeight + 2)),
              F(1) \div 2)
    ELSE ONE

\* an f64 quotient kept exact: num / den.  den = 0 is the IEEE inf or NaN
ratio(num, den) == [num |-> num, den |-> den]

\* random(): a value k / JitterSteps of [0, 1)
Jitters == 0..(JitterSteps - 1)

\* u = (x as f64 + random()) / ((config.width - 1) as f64)
pixel_u(x, k) == ratio(x * JitterSteps + k, (width - 1) * JitterSteps)

\* v = (y as f64 + random()) / ((config.height - 1) as f64)
pixel_v(yy, k) == ratio(yy * JitterSteps + k, (height - 1) * JitterSteps)

Pixels == {<<x, yy>> : x \in 0..(width - 1), yy \in 0..(height - 1)}

idle_task == [st |-> "idle", k |-> 0, color |-> ZERO]

\* a plausible slip: the row taken as soon as one of its pixels is there
row_started(yy) == \E x \in 0..(width - 1) : task[<<x, yy>>].st = "done"

\* collect() returns when every closure of the row has returned
row_complete(yy) == \A x \in 0..(width - 1) : task[<<x, yy>>].st = "done"

\* a plausible slip: the row put in front of the buffer
prepend_line(buf, ln) == ln \o buf

\* buffer.append(&mut line)
append_line(buf, ln) == buf \o ln

\* the index of pixel (x, yy) in the buffer, from 0
buffer_index(x, yy) == yy * width + x

InitRender ==
    /\ MathIdle /\ RayIdle
    /\ rpc = "render"
    /\ width \in 0..MaxWidth
    /\ height \in 0..MaxHeight
    /\ samples \in 1..MaxSamples
    /\ scene \in {"ramp", "flat"}
    /\ y = 0
    /\ task = [p \in Pixels |-> idle_task]
    /\ line = [i \in 1..width |-> NoColor]
    /\ buffer = <<>>
    /\ img = [p \in Pixels |-> NoColor]
    /\ computed = [p \in Pixels |-> NoColor]
    /\ camArgs = <<>>

\* a worker takes up the closure of pixel x of the row the loop is at
TaskStart(x) ==
    /\ rpc = "render" /\ y < height
    /\ x \in 0..(width - 1)
    /\ task[<<x, y>>].st = "idle"
    /\ task' = [task EXCEPT ![<<x, y>>] = [st |-> "running", k |-> 0, color |-> ZERO]]
    /\ UNCHANGED <<rpc, width, height, samples, scene, y, line, buffer, img,
                   computed, camArgs, mathVars, rayVars>>

\* one turn of the samples loop of a running closure
TaskSample(p, ju, jv) ==
    /\ task[p].st = "running"
    /\ task[p].k < samples
    /\ camArgs' = <<p[1], p[2], pixel_u(p[1], ju), pixel_v(p[2], jv)>>
    /\ task' = [task EXCEPT ![p] = [st |-> "running", k |-> @.k + 1,
                                    color |-> add(@.color, radiance(p[1], p[2]))]]
    /\ UNCHANGED <<rpc, width, height, samples, scene, y, line, buffer, img,
                   computed, mathVars, rayVars>>

\* the closure returns Color::from_vec(color, samples); collect() keeps it at
\* the index of its item
TaskFinish(p) ==
    /\ task[p].st = "running"
    /\ task[p].k = samples
    /\ LET c == from_vec(task[p].color, samples)
       IN  /\ line' = [line EXCEPT ![p[1] + 1] = c]
           /\ computed' = [computed EXCEPT ![p] = c]
    /\ task' = [task EXCEPT ![p] = [st |-> "done", k |-> 0, color |-> ZERO]]
    /\ UNCHANGED <<rpc, width, height, samples, scene, y, buffer, img, camArgs,
                   mathVars, rayVars>>

\* collect() returns the row, the row is appended, the loop goes on
RowAppend ==
    /\ rpc = "render" /\ y < height
    /\ row_complete(y)
    /\ buffer' = append_line(buffer, line)
    /\ line' = [i \in 1..width |-> NoColor]
    /\ task' = [p \in Pixels |->
                  IF p[2] = y /\ task[p].st = "done"
                  THEN [st |-> "joined", k |-> 0, color |-> ZERO] ELSE task[p]]
    /\ y' = y + 1
    /\ UNCHANGED <<rpc, width, height, samples, scene, img, computed, camArgs,
                   mathVars, rayVars>>

\* after the loop: copy buffer to image
CopyToImage ==
    /\ rpc = "render" /\ y = height
    /\ img' = [p \in Pixels |-> buffer[buffer_index(p[1], p[2]) + 1]]
    /\ rpc' = "done"
    /\ UNCHANGED <<width, height, samples, scene, y, task, line, buffer, computed,
                   camArgs, mathVars, rayVars>>

NextRender ==
    \/ \E x \in 0..(MaxWidth - 1) : TaskStart(x)
    \/ \E p \in Pixels, ju \in Jitters, jv \in Jitters : TaskSample(p, ju, jv)
    \/ \E p \in Pixels : TaskFinish(p)
    \/ RowAppend
    \/ CopyToImage

SpecRender == InitRender /\ [][NextRender]_vars

\* ----------------------------------------------------------------- claims
\* C1: an activation of ray_color with depth 0 returns (0,0,0) and issues
\* neither a world.hit query nor a scatter call; a top-level call with depth 0
\* ends with no query issued at all.
C1_DepthZeroBlack ==
    /\ (last.kind # "none" /\ last.depth = 0) =>
          /\ last.value = vec3(0, 0, 0)
          /\ last.nhit = 0
          /\ last.nscat = 0
    /\ (phase = "done" /\ topDepth = 0) =>
          /\ ret = vec3(0, 0, 0)
          /\ hits = 0
          /\ scatters = 0

C1_Witness ==
    /\ phase = "done" /\ topDepth = 0 /\ last.kind = "exhausted"
    /\ last.r.dir = vec3(F(3), F(4), 0)

\* the gradient written from white towards blue, with one division per
\* component
SkyT(r) == (normalize(r.dir).y + Scale) \div 2

ExpectedSky(r) ==
    vec3(Scale + (SkyT(r) * (Scale \div 2 - Scale)) \div Scale,
         Scale + (SkyT(r) * ((7 * Scale) \div 10 - Scale)) \div Scale,
         Scale + (SkyT(r) * (Scale - Scale)) \div Scale)

\* C2: an activation whose ray misses all geometry returns
\* (1-t)*(1,1,1) + t*(0.5,0.7,1.0) with t = 0.5*(normalize(dir).y + 1), a
\* point of the segment between white and sky-blue.
C2_MissIsSky ==
    last.kind = "miss" =>
        /\ last.value = ExpectedSky(last.r)
        /\ SkyT(last.r) >= 0 /\ SkyT(last.r) <= Scale
        /\ last.value.x >= Scale \div 2 /\ last.value.x <= Scale
        /\ last.value.y >= (7 * Scale) \div 10 /\ last.value.y <= Scale
        /\ last.value.z = Scale
        /\ last.nhit = 1 /\ last.nscat = 0

C2_Witness ==
    /\ last.kind = "miss" /\ last.r.dir = vec3(F(3), F(4), 0)
    /\ last.value = vec3((55 * Scale) \div 100, (73 * Scale) \div 100, Scale)

RECURSIVE PathProduct(_, _)
PathProduct(atts, term) ==
    IF atts = <<>> THEN term
    ELSE LET a == Head(atts)
             inner == PathProduct(Tail(atts), term)
         IN  vec3((a.x * inner.x) \div Scale, (a.y * inner.y) \div Scale,
                  (a.z * inner.z) \div Scale)

TerminalValue ==
    IF terminal.kind = "miss" THEN ExpectedSky(terminal.r) ELSE vec3(0, 0, 0)

\* C3: every activation that returns, returns the componentwise product of
\* the attenuations of the scatters below it times the terminal value of the
\* path; the terminal value is black when a scatter returns None, and then
\* the whole call returns black.
C3_PathProduct ==
    /\ (phase # "idle" /\ last.kind # "none") =>
          /\ ret = last.value
          /\ last.value =
                PathProduct(SubSeq(path, Len(stack) + 1, Len(path)), TerminalValue)
    /\ (phase = "done" /\ terminal.kind = "absorbed") => ret = vec3(0, 0, 0)
    /\ (phase = "done") => ret = PathProduct(path, TerminalValue)

C3_Witness ==
    /\ phase = "done" /\ Len(path) = 2 /\ terminal.kind = "miss"
    /\ path[1] = vec3(F(1), F(1) \div 2, 0)
    /\ path[2] = vec3(F(1) \div 2, F(1) \div 2, F(1) \div 2)
    /\ terminal.r.dir = vec3(0, F(-1), 0)
    /\ ret = vec3(F(1) \div 2, F(1) \div 4, 0)

\* C8: a call ray_color(r, world, d) nests at most d+1 activations, issues at
\* most d world.hit queries and d scatter calls, passes depth - 1 at every
\* recursive call, takes at most 2d+1 steps and, until it has returned, always
\* has a step to take (so it terminates).
C8_BoundedRecursion ==
    /\ Len(stack) <= topDepth + 1
    /\ hits <= topDepth
    /\ scatters <= topDepth
    /\ steps <= 2 * topDepth + 1
    /\ (stack # <<>>) => stack[1].depth = topDepth
    /\ \A i \in 1..(Len(stack) - 1) :
          /\ stack[i + 1].depth = stack[i].depth - 1
          /\ stack[i + 1].depth < stack[i].depth
    /\ (phase = "running") =>
          /\ stack # <<>>
          /\ \A i \in 1..(Len(stack) - 1) : stack[i].pc = "await"
          /\ \/ top.pc = "entry" /\ IsTerminal(top.depth)
             \/ top.pc = "entry" /\ ~IsTerminal(top.depth)
             \/ top.pc = "await"
    /\ (phase = "done") => stack = <<>>

C8_Witness ==
    /\ phase = "done" /\ topDepth = MaxDepth
    /\ hits = MaxDepth /\ scatters = MaxDepth /\ steps = 2 * MaxDepth + 1
    /\ last.kind = "scattered"

\* C9: depth - 1 is evaluated only in activations whose depth is at least 1,
\* so no activation ever gets a wrapped depth, whatever the top-level depth.
C9_NoUnderflow ==
    /\ \A d \in decs : d >= 1
    /\ \A i \in 1..Len(stack) : stack[i].depth <= topDepth
    /\ last.depth <= topDepth

C9_Witness ==
    /\ phase = "done" /\ topDepth = 1 /\ decs = {1}
    /\ terminal.kind = "exhausted" /\ terminal.depth = 0

\* u and v of a get_ray call lie in [0, 1]
InUnit(q) == q.den > 0 /\ 0 <= q.num /\ q.num <= q.den

\* C5: the u and v passed to camera.get_ray both lie in [0, 1], for every
\* pixel and every jitter of [0, 1).
C5_UVInUnitSquare ==
    camArgs # <<>> => (InUnit(camArgs[3]) /\ InUnit(camArgs[4]))

\* C6: the cos_theta of refract never exceeds 1.0 and equals -dot(v, n)
\* whenever -dot(v, n) <= 1.0.
C6_CosThetaClamped ==
    mpc = "refract" =>
        /\ mcos <= F(1)
        /\ (-dot(mv, mn) <= F(1)) => mcos = -dot(mv, mn)

RawDot(a, b) == (a.x * b.x + a.y * b.y + a.z * b.z) \div Scale

RawSq(a) == a.x * a.x + a.y * a.y + a.z * a.z

\* C7: reflect(v, n) is v - 2*dot(v,n)*n and has the squared norm of v, for
\* every bounded integer v and every axis-aligned unit n.
C7_ReflectPreservesNorm ==
    mpc = "reflect" =>
        /\ mout = vec3(mv.x - (2 * RawDot(mv, mn) * mn.x) \div Scale,
                       mv.y - (2 * RawDot(mv, mn) * mn.y) \div Scale,
                       mv.z - (2 * RawDot(mv, mn) * mn.z) \div Scale)
        /\ RawSq(mout) = RawSq(mv)
        /\ squared_norm(mout) = squared_norm(mv)

C7_Witness ==
    /\ mpc = "reflect"
    /\ mv = vec3(F(1), F(-2), F(2)) /\ mn = vec3(0, F(1), 0)
    /\ mout = vec3(F(1), F(2), F(2))

\* C4: whatever the order in which the closures of a row return, the rows
\* appended so far lie in scanline order with buffer[y*width + x] the colour
\* the closure of pixel (x, y) returned, and when the loop is over the buffer
\* holds width*height colours.
C4_BufferLayout ==
    /\ Len(buffer) = y * width
    /\ \A p \in Pixels :
          p[2] < y =>
             /\ computed[p] # NoColor
             /\ buffer[p[2] * width + p[1] + 1] = computed[p]
    /\ (rpc = "done") =>
          /\ Len(buffer) = width * height
          /\ \A p \in Pixels : img[p] = computed[p]

C4_Witness ==
    /\ rpc = "done" /\ width = MaxWidth /\ height = MaxHeight /\ scene = "ramp"
    /\ Len(buffer) = MaxWidth * MaxHeight
    /\ Cardinality({buffer[i] : i \in 1..Len(buffer)}) = MaxWidth * MaxHeight

\* C10: every closure running or collected belongs to the row the loop is
\* at: the rows before it are appended and joined, the rows after it are not
\* started, and at most width results wait to be appended.
C10_OneRowInFlight ==
    /\ \A p \in Pixels :
          /\ (task[p].st \in {"running", "done"}) => p[2] = y
          /\ (p[2] < y) => task[p].st = "joined"
          /\ (p[2] > y) => task[p].st = "idle"
    /\ Cardinality({p \in Pixels : task[p].st = "done"}) <= width
    /\ Cardinality({i \in 1..Len(line) : line[i] # NoColor}) <= width
    /\ Len(buffer) = y * width

C10_Witness ==
    /\ y = 1 /\ width = MaxWidth /\ height = MaxHeight
    /\ task[<<MaxWidth - 1, 1>>].st = "done"
    /\ task[<<0, 1>>].st = "running"
    /\ task[<<0, 0>>].st = "joined"

====
